---- MODULE Spec2Model ----
(***************************************************************************)
(* Model of the ndimage core: Rect, the image buffer, the four border      *)
(* padding functions (core/padding.rs) and Kernel::convolve                *)
(* (processing/kernel.rs).                                                 *)
(*                                                                         *)
(* An image is a record [ok, w, h, pix] whose pix is the row-major         *)
(* sequence of pixels of the contiguous allocation; a pixel is the         *)
(* sequence of its channels.  A panic (assert!, unwrap of None/Err, an     *)
(* out-of-bounds slice, an arithmetic overflow in a debug build) turns the *)
(* value being computed into Abort / BadRect, which every later step       *)
(* propagates.                                                             *)
(***************************************************************************)
EXTENDS Integers, Sequences, FiniteSets, TLC

VARIABLES img, padding, size, padded, kernel, tyS, tyT, tyO, build, out, pc,
          call, ret, views

vars == <<img, padding, size, padded, kernel, tyS, tyT, tyO, build, out, pc,
          call, ret, views>>

(* Bounds of the model. *)
MaxDim == 3
MaxPadDim == 5
MaxRadius == 2

Min(a, b) == IF a < b THEN a ELSE b
Max(a, b) == IF a < b THEN b ELSE a

(***************************************************************************)
(* u32 arithmetic.  An overflow panics in a debug build and wraps in a     *)
(* release build.  TLC's integers are 32 bits wide, so the wrap is taken   *)
(* modulo 2^30: like 2^32 it exceeds every coordinate of the model, which  *)
(* is all the code's comparisons depend on.  Panicked (-1) marks an        *)
(* operand whose evaluation panicked.                                      *)
(***************************************************************************)
U32Modulus == 2 ^ 30
Panicked == 0 - 1

USub(a, b) ==
    IF a < 0 \/ b < 0 THEN Panicked
    ELSE IF a >= b THEN a - b
    ELSE IF build = "debug" THEN Panicked
    ELSE a - b + U32Modulus

UAdd(a, b) ==
    IF a < 0 \/ b < 0 THEN Panicked
    ELSE IF a + b < U32Modulus THEN a + b
    ELSE IF build = "debug" THEN Panicked
    ELSE a + b - U32Modulus

UMul(a, b) ==
    IF a < 0 \/ b < 0 THEN Panicked
    ELSE IF a * b < U32Modulus THEN a * b
    ELSE IF build = "debug" THEN Panicked
    ELSE (a * b) % U32Modulus

(***************************************************************************)
(* core/rect.rs                                                            *)
(***************************************************************************)
BadRect == [ok |-> FALSE, left |-> 0, top |-> 0, width |-> 0, height |-> 0]

RectNew_unchecked(x, y, w, h) ==
    IF x < 0 \/ y < 0 \/ w < 0 \/ h < 0 THEN BadRect
    ELSE [ok |-> TRUE, left |-> x, top |-> y, width |-> w, height |-> h]

RectNew(x, y, w, h) ==
    IF x < 0 \/ y < 0 \/ w < 0 \/ h < 0 THEN BadRect
    ELSE IF ~(w # 0 /\ h # 0) THEN BadRect
    ELSE [ok |-> TRUE, left |-> x, top |-> y, width |-> w, height |-> h]

right(r) == USub(UAdd(r.left, r.width), 1)
bottom(r) == USub(UAdd(r.top, r.height), 1)

NoRect == [some |-> FALSE, rect |-> BadRect]

intersection(a, b) ==
    LET l == Max(a.left, b.left)
        t == Max(a.top, b.top)
        rr == Min(right(a), right(b))
        bb == Min(bottom(a), bottom(b))
    IN  IF right(a) < 0 \/ right(b) < 0 \/ bottom(a) < 0 \/ bottom(b) < 0
        THEN [some |-> TRUE, rect |-> BadRect]
        ELSE IF l <= rr /\ t <= bb
        THEN [some |-> TRUE, rect |-> RectNew(l, t, rr - l + 1, bb - t + 1)]
        ELSE NoRect

fits_image(r, im) == right(r) < im.w /\ bottom(r) < im.h

crop_to_image(r, im) == intersection(r, RectNew(0, 0, im.w, im.h))

(***************************************************************************)
(* core/image2d.rs                                                         *)
(***************************************************************************)
Abort == [ok |-> FALSE, w |-> 0, h |-> 0, pix |-> << >>]

Idx(x, y, w) == y * w + x + 1

get_pixel(im, x, y) == im.pix[Idx(x, y, im.w)]

rect(im) == RectNew(0, 0, im.w, im.h)

(* ImageBuffer2D::from_elem(w, h, val): a w x h buffer filled with val. *)
from_elem(w, h, val) ==
    [ok |-> TRUE, w |-> w, h |-> h, pix |-> [k \in 1..(w * h) |-> val]]

(* ndarray slice(s![a..b]) on an axis of length len panics unless both     *)
(* ends are within the axis; an end below the start gives an empty slice.  *)
SliceOk(a, b, len) == a >= 0 /\ b >= 0 /\ a <= len /\ b <= len
SliceLen(a, b) == IF b < a THEN 0 ELSE b - a

(* The coordinates rect_iter / rect_iter_mut visit, in row-major order. *)
RectCoords(r) ==
    [k \in 1..(r.width * r.height) |->
        <<r.left + ((k - 1) % r.width), r.top + ((k - 1) \div r.width)>>]

RectIterOk(im, r) ==
    /\ r.ok
    /\ im.ok
    /\ SliceOk(r.top, r.top + r.height, im.h)
    /\ SliceOk(r.left, r.left + r.width, im.w)

rect_iter(im, r) ==
    [k \in 1..(r.width * r.height) |->
        get_pixel(im, RectCoords(r)[k][1], RectCoords(r)[k][2])]

(* fits_image panics when right() or bottom() overflows; bottom() is only  *)
(* evaluated when right() < width.                                         *)
fits_image_panics(r, im) ==
    right(r) < 0 \/ (right(r) < im.w /\ bottom(r) < 0)

(* blit_rect: the error it returns, "none" when it copies, "panic" when a  *)
(* step of it panics.                                                      *)
blit_error(self, src_rect, dst_rect, im) ==
    IF <<src_rect.width, src_rect.height>> # <<dst_rect.width, dst_rect.height>>
    THEN "RectSizeMismatch"
    ELSE IF fits_image_panics(src_rect, im) THEN "panic"
    ELSE IF ~fits_image(src_rect, im) THEN "RectOutOfBounds"
    ELSE IF fits_image_panics(dst_rect, self) THEN "panic"
    ELSE IF ~fits_image(dst_rect, self) THEN "RectOutOfBounds"
    ELSE IF ~RectIterOk(im, src_rect) \/ ~RectIterOk(self, dst_rect) THEN "panic"
    ELSE "none"

blit_copy_from_origin(self, src_rect, dst_rect, im) ==
    LET n == Min(src_rect.width * src_rect.height, dst_rect.width * dst_rect.height)
        src == rect_iter(im, [src_rect EXCEPT !.left = 0, !.top = 0])
    IN  [self EXCEPT !.pix = [k \in 1..(self.w * self.h) |->
            LET x == (k - 1) % self.w
                y == (k - 1) \div self.w
                i == (y - dst_rect.top) * dst_rect.width + (x - dst_rect.left) + 1
            IN  IF /\ x >= dst_rect.left /\ x < dst_rect.left + dst_rect.width
                   /\ y >= dst_rect.top /\ y < dst_rect.top + dst_rect.height
                   /\ i <= n
                THEN src[i] ELSE self.pix[k]]]

(* The destination after the zip of the two rect iterators: the pixel that *)
(* dst_rect's iterator yields as its i-th receives the i-th pixel of       *)
(* src_rect's iterator.                                                    *)
blit_copy(self, src_rect, dst_rect, im) ==
    LET n == Min(src_rect.width * src_rect.height, dst_rect.width * dst_rect.height)
        src == rect_iter(im, src_rect)
    IN  [self EXCEPT !.pix = [k \in 1..(self.w * self.h) |->
            LET x == (k - 1) % self.w
                y == (k - 1) \div self.w
                i == (y - dst_rect.top) * dst_rect.width + (x - dst_rect.left) + 1
            IN  IF /\ x >= dst_rect.left /\ x < dst_rect.left + dst_rect.width
                   /\ y >= dst_rect.top /\ y < dst_rect.top + dst_rect.height
                   /\ i <= n
                THEN src[i] ELSE self.pix[k]]]

(* blit_rect(...).unwrap() *)
blit_rect_unwrap(self, src_rect, dst_rect, im) ==
    IF ~self.ok \/ ~im.ok \/ ~src_rect.ok \/ ~dst_rect.ok THEN Abort
    ELSE IF blit_error(self, src_rect, dst_rect, im) # "none" THEN Abort
    ELSE blit_copy(self, src_rect, dst_rect, im)

(* blit_rect: how the call ends (res is "Ok", "Err" or "panic"), the error *)
(* it returns and the destination afterwards.                              *)
blit_rect(self, src_rect, dst_rect, im) ==
    LET e == blit_error(self, src_rect, dst_rect, im)
    IN  IF e = "none"
        THEN [res |-> "Ok", err |-> "none",
              self |-> blit_copy(self, src_rect, dst_rect, im)]
        ELSE IF e = "panic"
        THEN [res |-> "panic", err |-> "none", self |-> Abort]
        ELSE [res |-> "Err", err |-> e, self |-> self]

(* fill_rect: rect_iter_mut slices the buffer and every pixel of the slice *)
(* is set to value.                                                        *)
fill_rect(im, r, value) ==
    IF ~RectIterOk(im, r) THEN Abort
    ELSE [im EXCEPT !.pix = [k \in 1..(im.w * im.h) |->
            LET x == (k - 1) % im.w
                y == (k - 1) \div im.w
            IN  IF /\ x >= r.left /\ x < r.left + r.width
                   /\ y >= r.top /\ y < r.top + r.height
                THEN value ELSE im.pix[k]]]

(* translate_rect: the arithmetic is done in i64, the new width and height *)
(* in u32.                                                                 *)
translate_rect(im, r, x, y) ==
    LET left == r.left + x
        top == r.top + y
        rgt == right(r) + x
        btm == bottom(r) + y
        x_left == IF left < 0 THEN 0 ELSE left
        y_top == IF top < 0 THEN 0 ELSE top
    IN  IF right(r) < 0 \/ bottom(r) < 0
        THEN [some |-> TRUE, rect |-> BadRect]
        ELSE IF left < im.w /\ top < im.h /\ rgt >= 0 /\ btm >= 0
        THEN [some |-> TRUE,
              rect |-> RectNew(x_left, y_top,
                               USub(Min(im.w, rgt + 1), x_left),
                               USub(Min(im.h, btm + 1), y_top))]
        ELSE NoRect

(***************************************************************************)
(* Views.  sub_image / sub_image_mut slice the buffer by                   *)
(* top..bottom+1, left..right+1; a view is the window [x0, y0, w, h] it    *)
(* denotes in its owner.                                                   *)
(***************************************************************************)
BadView == [ok |-> FALSE, x0 |-> 0, y0 |-> 0, w |-> 0, h |-> 0]

sub_image_transposed(im, r) ==
    IF ~im.ok \/ ~r.ok THEN BadView
    ELSE IF right(r) < 0 \/ bottom(r) < 0 THEN BadView
    ELSE IF UAdd(right(r), 1) < 0 \/ UAdd(bottom(r), 1) < 0 THEN BadView
    ELSE IF ~SliceOk(r.top, UAdd(bottom(r), 1), im.h) THEN BadView
    ELSE IF ~SliceOk(r.left, UAdd(right(r), 1), im.w) THEN BadView
    ELSE [ok |-> TRUE, x0 |-> r.top, y0 |-> r.left,
          w |-> SliceLen(r.left, UAdd(right(r), 1)),
          h |-> SliceLen(r.top, UAdd(bottom(r), 1))]

sub_image(im, r) ==
    IF ~im.ok \/ ~r.ok THEN BadView
    ELSE IF right(r) < 0 \/ bottom(r) < 0 THEN BadView
    ELSE IF UAdd(right(r), 1) < 0 \/ UAdd(bottom(r), 1) < 0 THEN BadView
    ELSE IF ~SliceOk(r.top, UAdd(bottom(r), 1), im.h) THEN BadView
    ELSE IF ~SliceOk(r.left, UAdd(right(r), 1), im.w) THEN BadView
    ELSE [ok |-> TRUE, x0 |-> r.left, y0 |-> r.top,
          w |-> SliceLen(r.left, UAdd(right(r), 1)),
          h |-> SliceLen(r.top, UAdd(bottom(r), 1))]

sub_image_mut(im, r) == sub_image(im, r)

(* sub_image / sub_image_mut called on a view v: the slice is taken of the *)
(* view's own buffer, whose origin is (v.x0, v.y0) in the owner.           *)
sub_image_of_view(v, r) ==
    LET s == sub_image([ok |-> v.ok, w |-> v.w, h |-> v.h], r)
    IN  IF ~s.ok THEN BadView
        ELSE [s EXCEPT !.x0 = v.x0 + s.x0, !.y0 = v.y0 + s.y0]

(* Pixel (i, j) of a view of im. *)
view_pixel(im, v, i, j) == get_pixel(im, v.x0 + i, v.y0 + j)

(* The pixels (i, j) of a view. *)
view_indices(v) == (0..(v.w - 1)) \X (0..(v.h - 1))

view_write_at_origin(im, v, vals) ==
    [im EXCEPT !.pix = [k \in 1..(im.w * im.h) |->
        LET x == (k - 1) % im.w
            y == (k - 1) \div im.w
            ij == <<x, y>>
        IN  IF ij \in DOMAIN vals THEN vals[ij] ELSE im.pix[k]]]

(* The owner after pixel ij of the view is set to vals[ij], for every ij   *)
(* in the domain of vals.                                                  *)
view_write(im, v, vals) ==
    [im EXCEPT !.pix = [k \in 1..(im.w * im.h) |->
        LET x == (k - 1) % im.w
            y == (k - 1) \div im.w
            ij == <<x - v.x0, y - v.y0>>
        IN  IF ij \in DOMAIN vals THEN vals[ij] ELSE im.pix[k]]]

(* sub_image_mut(rect).fill(val) *)
fill_view(im, r, val) ==
    LET v == sub_image_mut(im, r)
    IN  IF ~im.ok \/ ~v.ok THEN Abort
        ELSE view_write(im, v, [ij \in view_indices(v) |-> val])

(* row(y) / col(x): Some(pixels) or None. *)
row(im, y) ==
    IF y >= 0 /\ y < im.h
    THEN [some |-> TRUE, seq |-> [x \in 1..im.w |-> get_pixel(im, x - 1, y)]]
    ELSE [some |-> FALSE, seq |-> << >>]

col(im, x) ==
    IF x >= 0 /\ x < im.w
    THEN [some |-> TRUE, seq |-> [y \in 1..im.h |-> get_pixel(im, x, y - 1)]]
    ELSE [some |-> FALSE, seq |-> << >>]

fill_cols_first(im, r, values) ==
    LET v == sub_image_mut(im, r)
        zipped == {ij \in view_indices(v) : ij[1] < Len(values.seq)}
    IN  IF ~im.ok \/ ~v.ok \/ ~values.some THEN Abort
        ELSE view_write(im, v, [ij \in zipped |-> values.seq[1]])

(* for (col, value) in view.cols_mut().zip(values) { col.fill(value) } *)
fill_cols_zip(im, r, values) ==
    LET v == sub_image_mut(im, r)
        zipped == {ij \in view_indices(v) : ij[1] < Len(values.seq)}
    IN  IF ~im.ok \/ ~v.ok \/ ~values.some THEN Abort
        ELSE view_write(im, v, [ij \in zipped |-> values.seq[ij[1] + 1]])

(* for (row, value) in view.rows_mut().zip(values) { row.fill(value) } *)
fill_rows_zip(im, r, values) ==
    LET v == sub_image_mut(im, r)
        zipped == {ij \in view_indices(v) : ij[2] < Len(values.seq)}
    IN  IF ~im.ok \/ ~v.ok \/ ~values.some THEN Abort
        ELSE view_write(im, v, [ij \in zipped |-> values.seq[ij[2] + 1]])

(***************************************************************************)
(* core/padding.rs.  size is the pair <<size.0, size.1>>.                  *)
(***************************************************************************)
pad_constant_no_offset(im, sz, val) ==
    LET p0 == from_elem(im.w + 2 * sz[1], im.h + 2 * sz[2], val)
        r == RectNew(0, 0, im.w, im.h)
    IN  blit_rect_unwrap(p0, rect(im), r, im)

pad_constant_zero_fill(im, sz, val) ==
    LET p0 == from_elem(im.w + 2 * sz[1], im.h + 2 * sz[2], [c \in 1..Len(val) |-> 0])
        r == RectNew(sz[1], sz[2], im.w, im.h)
    IN  blit_rect_unwrap(p0, rect(im), r, im)

pad_constant(im, sz, val) ==
    LET p0 == from_elem(im.w + 2 * sz[1], im.h + 2 * sz[2], val)
        r == RectNew(sz[1], sz[2], im.w, im.h)
    IN  blit_rect_unwrap(p0, rect(im), r, im)

ZeroPixel(im) == [c \in 1..Len(im.pix[1]) |-> 0]

pad_zeros(im, sz) == pad_constant(im, sz, ZeroPixel(im))

pad_replicate(im, sz) ==
    LET w == im.w
        h == im.h
        p0 == pad_zeros(im, sz)
        (* the four corners *)
        c1 == fill_view(p0, RectNew(0, 0, sz[1], sz[2]), get_pixel(im, 0, 0))
        c2 == fill_view(c1, RectNew(0, h + sz[2], sz[1], sz[2]),
                        get_pixel(im, 0, h - 1))
        c3 == fill_view(c2, RectNew(w + sz[1], 0, sz[1], sz[2]),
                        get_pixel(im, w - 1, 0))
        c4 == fill_view(c3, RectNew(w + sz[1], h + sz[2], sz[1], sz[2]),
                        get_pixel(im, w - 1, h - 1))
        (* top, left, right and bottom sides *)
        s1 == fill_cols_zip(c4, RectNew(sz[1], 0, w, sz[2]), row(im, 0))
        s2 == fill_rows_zip(s1, RectNew(0, sz[2], sz[1], h), col(im, 0))
        s3 == fill_rows_zip(s2, RectNew(w + sz[1], sz[2], sz[1], h), col(im, w - 1))
        s4 == fill_cols_zip(s3, RectNew(sz[1], h + sz[2], w, sz[1]), row(im, h - 1))
    IN  s4

pad_wrap_same_side(im, sz) ==
    LET w == im.w
        h == im.h
        p0 == pad_zeros(im, sz)
        copy_subimage(p, src_rect, dst_rect) == blit_rect_unwrap(p, src_rect, dst_rect, im)
        b1 == copy_subimage(p0, RectNew(0, 0, sz[1], sz[2]),
                            RectNew(w + sz[1], h + sz[2], sz[1], sz[2]))
        b2 == copy_subimage(b1, RectNew(USub(w, sz[1]), 0, sz[1], sz[2]),
                            RectNew(0, h + sz[2], sz[1], sz[2]))
        b3 == copy_subimage(b2, RectNew(0, USub(h, sz[2]), sz[1], sz[2]),
                            RectNew(w + sz[1], 0, sz[1], sz[2]))
        b4 == copy_subimage(b3, RectNew(USub(w, sz[1]), USub(h, sz[2]), sz[1], sz[2]),
                            RectNew(0, 0, sz[1], sz[2]))
        b5 == copy_subimage(b4, RectNew(0, 0, w, sz[2]),
                            RectNew(sz[1], h + sz[2], w, sz[2]))
        b6 == copy_subimage(b5, RectNew(USub(w, sz[1]), 0, sz[1], h),
                            RectNew(w + sz[1], sz[2], sz[1], h))
        b7 == copy_subimage(b6, RectNew(0, 0, sz[1], h),
                            RectNew(0, sz[2], sz[1], h))
        b8 == copy_subimage(b7, RectNew(0, USub(h, sz[2]), w, sz[2]),
                            RectNew(sz[1], 0, w, sz[2]))
    IN  b8

pad_wrap(im, sz) ==
    LET w == im.w
        h == im.h
        p0 == pad_zeros(im, sz)
        copy_subimage(p, src_rect, dst_rect) == blit_rect_unwrap(p, src_rect, dst_rect, im)
        b1 == copy_subimage(p0, RectNew(0, 0, sz[1], sz[2]),
                            RectNew(w + sz[1], h + sz[2], sz[1], sz[2]))
        b2 == copy_subimage(b1, RectNew(USub(w, sz[1]), 0, sz[1], sz[2]),
                            RectNew(0, h + sz[2], sz[1], sz[2]))
        b3 == copy_subimage(b2, RectNew(0, USub(h, sz[2]), sz[1], sz[2]),
                            RectNew(w + sz[1], 0, sz[1], sz[2]))
        b4 == copy_subimage(b3, RectNew(USub(w, sz[1]), USub(h, sz[2]), sz[1], sz[2]),
                            RectNew(0, 0, sz[1], sz[2]))
        b5 == copy_subimage(b4, RectNew(0, 0, w, sz[2]),
                            RectNew(sz[1], h + sz[2], w, sz[2]))
        b6 == copy_subimage(b5, RectNew(0, 0, sz[1], h),
                            RectNew(w + sz[1], sz[2], sz[1], h))
        b7 == copy_subimage(b6, RectNew(USub(w, sz[1]), 0, sz[1], h),
                            RectNew(0, sz[2], sz[1], h))
        b8 == copy_subimage(b7, RectNew(0, USub(h, sz[2]), w, sz[2]),
                            RectNew(sz[1], 0, w, sz[2]))
    IN  b8

copy_and_mirror_rows_only(p, src_rect, dst_rect, im, rev_rows, rev_cols) ==
    LET sv == sub_image(im, src_rect)
        dv == sub_image_mut(p, dst_rect)
        SrcRow(j) == IF rev_rows THEN dv.h - 1 - j ELSE j
        zipped == {ij \in view_indices(dv) :
                      SrcRow(ij[2]) < Min(sv.h, dv.h) /\ ij[1] < Min(sv.w, dv.w)}
    IN  IF ~p.ok \/ ~sv.ok \/ ~dv.ok THEN Abort
        ELSE view_write(p, dv,
                 [ij \in zipped |-> view_pixel(im, sv, ij[1], SrcRow(ij[2]))])

(* The three closures of pad_mirror: the rows of the source view zipped    *)
(* with the rows of the destination view (reversed when rev_rows), the     *)
(* pixels of each row pair zipped likewise (destination reversed when      *)
(* rev_cols).                                                              *)
copy_and_mirror_subimage(p, src_rect, dst_rect, im, rev_rows, rev_cols) ==
    LET sv == sub_image(im, src_rect)
        dv == sub_image_mut(p, dst_rect)
        SrcRow(j) == IF rev_rows THEN dv.h - 1 - j ELSE j
        SrcCol(i) == IF rev_cols THEN dv.w - 1 - i ELSE i
        zipped == {ij \in view_indices(dv) :
                      SrcRow(ij[2]) < Min(sv.h, dv.h) /\ SrcCol(ij[1]) < Min(sv.w, dv.w)}
    IN  IF ~p.ok \/ ~sv.ok \/ ~dv.ok THEN Abort
        ELSE view_write(p, dv,
                 [ij \in zipped |-> view_pixel(im, sv, SrcCol(ij[1]), SrcRow(ij[2]))])

pad_mirror(im, sz) ==
    LET w == im.w
        h == im.h
        p0 == pad_zeros(im, sz)
        both(p, s, d) == copy_and_mirror_subimage(p, s, d, im, TRUE, TRUE)
        hor(p, s, d) == copy_and_mirror_subimage(p, s, d, im, FALSE, TRUE)
        ver(p, s, d) == copy_and_mirror_subimage(p, s, d, im, TRUE, FALSE)
        m1 == both(p0, RectNew(0, 0, sz[1], sz[2]), RectNew(0, 0, sz[1], sz[2]))
        m2 == both(m1, RectNew(USub(w, sz[1]), 0, sz[1], sz[2]),
                   RectNew(w + sz[1], 0, sz[1], sz[2]))
        m3 == both(m2, RectNew(0, USub(h, sz[2]), sz[1], sz[2]),
                   RectNew(0, h + sz[2], sz[1], sz[2]))
        m4 == both(m3, RectNew(USub(w, sz[1]), USub(h, sz[2]), sz[1], sz[2]),
                   RectNew(w + sz[1], h + sz[2], sz[1], sz[2]))
        m5 == hor(m4, RectNew(0, 0, sz[1], h), RectNew(0, sz[2], sz[1], h))
        m6 == hor(m5, RectNew(USub(w, sz[1]), 0, sz[2], h),
                  RectNew(w + sz[1], sz[2], sz[1], h))
        m7 == ver(m6, RectNew(0, 0, w, sz[2]), RectNew(sz[1], 0, w, sz[2]))
        m8 == ver(m7, RectNew(0, USub(h, sz[2]), w, sz[1]),
                  RectNew(sz[1], h + sz[2], w, sz[2]))
    IN  m8

(* Padding::apply *)
apply(pad, im, sz) ==
    CASE pad.kind = "Constant" -> pad_constant(im, sz, pad.val)
      [] pad.kind = "Replicate" -> pad_replicate(im, sz)
      [] pad.kind = "Wrap" -> pad_wrap(im, sz)
      [] pad.kind = "Mirror" -> pad_mirror(im, sz)

(***************************************************************************)
(* Subpixel types and num_traits::NumCast.                                 *)
(*                                                                         *)
(* A value of an integer type is the integer itself.  A value of the float *)
(* type is an exact rational, kept as its numerator over the denominator   *)
(* den that the kernel fixes (the box kernel's 1/(2r+1)^2); the rounding   *)
(* error of f64 arithmetic is not represented.                             *)
(***************************************************************************)
IsFloat(t) == t = "f64"

MinValue(t) ==
    CASE t = "u8" -> 0
      [] t = "i8" -> 0 - 128
      [] t = "i16" -> 0 - 32768

MaxValue(t) ==
    CASE t = "u8" -> 255
      [] t = "i8" -> 127
      [] t = "i16" -> 32767

InRange(v, t) == MinValue(t) <= v /\ v <= MaxValue(t)

TruncDiv(a, d) == IF a >= 0 THEN a \div d ELSE 0 - ((0 - a) \div d)

None == [some |-> FALSE, v |-> 0]
Some(v) == [some |-> TRUE, v |-> v]

(* <to as NumCast>::from::<from>(v); den is the denominator of float values. *)
cast(v, from, to, den) ==
    IF IsFloat(to)
    THEN IF IsFloat(from) THEN Some(v) ELSE Some(v * den)
    ELSE LET i == IF IsFloat(from) THEN TruncDiv(v, den) ELSE v
         IN  IF InRange(i, to) THEN Some(i) ELSE None

(* cast(...).unwrap_or(zero) *)
cast_or_zero(v, from, to, den) ==
    IF cast(v, from, to, den).some THEN cast(v, from, to, den).v ELSE 0

(* PixelCast::cast_to, on each channel *)
cast_to(p, from, to) == [c \in 1..Len(p) |-> cast_or_zero(p[c], from, to, 1)]

(* num_traits::clamp *)
clamp(input, min, max) ==
    IF input < min THEN min ELSE IF input > max THEN max ELSE input

(* Arithmetic of the working type T: exact for the float type; an integer  *)
(* overflow panics in a debug build and wraps in a release build.          *)
WrapT(v, t) ==
    ((v - MinValue(t)) % (MaxValue(t) - MinValue(t) + 1)) + MinValue(t)

ArithT(v, t) ==
    IF IsFloat(t) THEN Some(v)
    ELSE IF InRange(v, t) THEN Some(v)
    ELSE IF build = "debug" THEN None
    ELSE Some(WrapT(v, t))

(***************************************************************************)
(* processing/kernel.rs.  A kernel is [ok, elems, radius, den]: its weight *)
(* k is elems[k] / den (den = 1 for an integer working type).              *)
(***************************************************************************)
BadKernel == [ok |-> FALSE, elems |-> << >>, radius |-> 0, den |-> 1]

(* let mut s = 2 * radius + 1; s *= s;  in u32 *)
KernelSize(radius) ==
    LET s == UAdd(UMul(2, radius), 1)
    IN  UMul(s, s)

(* Kernel::new(elems, radius).unwrap() *)
KernelNew(elems, radius, den) ==
    LET s == KernelSize(radius)
    IN  IF s # Panicked /\ Len(elems) = s
        THEN [ok |-> TRUE, elems |-> elems, radius |-> radius, den |-> den]
        ELSE BadKernel

box_(radius) ==
    LET d == 2 * radius + 1
        n == d * d
    IN  KernelNew([k \in 1..n |-> 1], radius, n)

sobel_x_3x3 ==
    KernelNew(<<0 - 1, 0, 1,
                0 - 2, 0, 2,
                0 - 1, 0, 1>>, 1, 1)

sobel_y_3x3 ==
    KernelNew(<<0 - 1, 0 - 2, 0 - 1,
                0, 0, 0,
                1, 2, 1>>, 1, 1)

(* The rect of the window of output pixel (x, y). *)
window_rect(k, im, x, y) ==
    LET d == 2 * k.radius + 1
    IN  crop_to_image(RectNew(x, y, d, d), im)

(* The pairs (window pixel, kernel element) the zip yields. *)
window_len(k, im, x, y) ==
    Min(window_rect(k, im, x, y).rect.width * window_rect(k, im, x, y).rect.height,
        Len(k.elems))

(* The product of kernel element n and channel c of window pixel n, cast   *)
(* from S to T and unwrapped: None when the cast or the multiplication     *)
(* panics.                                                                 *)
product(k, p, r, n, c, S, T) ==
    LET px == rect_iter(p, r)[n]
        ct == cast(px[c], S, T, k.den)
    IN  IF ~ct.some THEN None ELSE ArithT((k.elems[n] * ct.v) \div k.den, T)

(* pix_accu_t[c] after the first n products have been added. *)
RECURSIVE accumulate(_, _, _, _, _, _, _)
accumulate(k, p, r, n, c, S, T) ==
    IF n = 0 THEN Some(0)
    ELSE LET a == accumulate(k, p, r, n - 1, c, S, T)
             e == product(k, p, r, n, c, S, T)
         IN  IF ~a.some \/ ~e.some THEN None ELSE ArithT(a.v + e.v, T)

clamp_max_of_output(S, T, den) == cast(MaxValue(tyO), tyO, T, den)

(* The bounds the accumulated sum is clamped into. *)
clamp_min(S, T, den) == cast(MinValue(S), S, T, den)
clamp_max(S, T, den) == cast(MaxValue(S), S, T, den)

(* Channel c of output pixel (x, y): None when a step panics. *)
convolve_channel(k, im, p, x, y, c, S, T, O) ==
    LET wr == window_rect(k, im, x, y)
        acc == accumulate(k, p, wr.rect, window_len(k, im, x, y), c, S, T)
        max == clamp_max(S, T, k.den)
        min == clamp_min(S, T, k.den)
    IN  IF ~wr.some \/ ~wr.rect.ok \/ ~RectIterOk(p, wr.rect) THEN None
        ELSE IF ~acc.some \/ ~max.some \/ ~min.some THEN None
        ELSE Some(cast_or_zero(clamp(acc.v, min.v, max.v), T, O, k.den))

(* Kernel::convolve after its first statement: p is the padded image       *)
(* padding.apply(img, self.radius).                                        *)
convolve_padded(k, im, p, S, T, O) ==
    LET nch == Len(im.pix[1])
        accu == [i \in 1..(im.w * im.h) |->
                    [c \in 1..nch |->
                        convolve_channel(k, im, p, (i - 1) % im.w, (i - 1) \div im.w,
                                         c, S, T, O)]]
    IN  IF ~p.ok \/ ~k.ok THEN Abort
        ELSE IF \E i \in 1..(im.w * im.h), c \in 1..nch : ~accu[i][c].some
        THEN Abort
        ELSE [ok |-> TRUE, w |-> im.w, h |-> im.h,
              pix |-> [i \in 1..(im.w * im.h) |-> [c \in 1..nch |-> accu[i][c].v]]]

(* math::gaussian_2d(x, y, sigma): the weight is kept as the term it is    *)
(* computed from.                                                          *)
gaussian_2d(x, y, sigma) == [x |-> x, y |-> y, sigma |-> sigma]

(* Kernel::gaussian: one weight for each y and x in -r..r+1. *)
gaussian(sigma, radius) ==
    LET d == UAdd(UMul(2, radius), 1)
        n == UMul(d, d)
        v == [k \in 1..((2 * radius + 1) * (2 * radius + 1)) |->
                 gaussian_2d(((k - 1) % (2 * radius + 1)) - radius,
                             ((k - 1) \div (2 * radius + 1)) - radius, sigma)]
    IN  IF n = Panicked THEN BadKernel ELSE KernelNew(v, radius, 1)

(* Kernel::new: how the call ends and the kernel it returns. *)
kernel_new(elems, radius) ==
    LET s == KernelSize(radius)
    IN  IF s = Panicked THEN [res |-> "panic", k |-> BadKernel]
        ELSE IF Len(elems) # s THEN [res |-> "Err", k |-> BadKernel]
        ELSE [res |-> "Ok", k |-> KernelNew(elems, radius, 1)]

(***************************************************************************)
(* core/image2d.rs: the constructors of ImageBuffer2D.                     *)
(***************************************************************************)
from_shape_vec_col_major(rows, cols, v) ==
    IF rows * cols # Len(v) THEN [ok |-> FALSE, a |-> << >>]
    ELSE [ok |-> TRUE,
          a |-> [rc \in (0..(rows - 1)) \X (0..(cols - 1)) |->
                    v[rc[2] * rows + rc[1] + 1]]]

(* ndarray's Array2::from_shape_vec((rows, cols), v): an error unless v    *)
(* has rows * cols elements; element [r, c] is v[r * cols + c].            *)
from_shape_vec(rows, cols, v) ==
    IF rows * cols # Len(v) THEN [ok |-> FALSE, a |-> << >>]
    ELSE [ok |-> TRUE,
          a |-> [rc \in (0..(rows - 1)) \X (0..(cols - 1)) |->
                    v[rc[1] * cols + rc[2] + 1]]]

(* The image whose buffer is the rows x cols array a: width() is the       *)
(* number of columns, height() the number of rows and get_pixel(x, y) is   *)
(* a[y, x].                                                                *)
ImageOfArray(rows, cols, a) ==
    [ok |-> TRUE, w |-> cols, h |-> rows,
     pix |-> [k \in 1..(rows * cols) |-> a[<<(k - 1) \div cols, (k - 1) % cols>>]]]

from_vec_swapped(w, h, v) ==
    LET buf == from_shape_vec(w, h, v)
    IN  IF ~buf.ok THEN [res |-> "Err", err |-> "InvalidDimensions", img |-> Abort]
        ELSE [res |-> "Ok", err |-> "none", img |-> ImageOfArray(w, h, buf.a)]

from_vec(w, h, v) ==
    LET buf == from_shape_vec(h, w, v)
    IN  IF ~buf.ok THEN [res |-> "Err", err |-> "InvalidDimensions", img |-> Abort]
        ELSE [res |-> "Ok", err |-> "none", img |-> ImageOfArray(h, w, buf.a)]

(* into_raw_vec: the storage of the buffer, which from_shape_vec keeps in  *)
(* row-major order.                                                        *)
into_raw_vec(im) == [k \in 1..(im.w * im.h) |-> im.pix[k]]

(* iter(): the pixels in logical order, row after row. *)
iter(im) ==
    [k \in 1..(im.w * im.h) |-> get_pixel(im, (k - 1) % im.w, (k - 1) \div im.w)]

(* slice::chunks(n): consecutive chunks of n elements, the last one        *)
(* shorter when the length is not a multiple of n.                         *)
chunks(v, n) ==
    [i \in 1..((Len(v) + n - 1) \div n) |->
        SubSeq(v, (i - 1) * n + 1, Min(i * n, Len(v)))]

(* Pixel::from_slice for a pixel of n channels: the zero pixel, with the   *)
(* channels the zip with s reaches replaced.                               *)
from_slice(s, n) == [c \in 1..n |-> IF c <= Len(s) THEN s[c] ELSE 0]

(* Pixel::set_to_slice: the channels the zip with s reaches are replaced,   *)
(* the others keep their value.                                            *)
set_to_slice(p, s) == [c \in 1..Len(p) |-> IF c <= Len(s) THEN s[c] ELSE p[c]]

(* Pixel::clamp: the iterator over channels_mut() is mapped to the clamped *)
(* values and consumed by count(); the mapped values are dropped and no    *)
(* channel is assigned.                                                    *)
pixel_clamp(p, low, high) ==
    LET mapped == [c \in 1..Len(p) |-> clamp(p[c], low, high)]
        count == Len(mapped)
    IN  p

(* from_raw_vec for a pixel type of n channels. *)
from_raw_vec(w, h, n, v) ==
    LET pixels_iter == chunks(v, n)
        v_pixels == [i \in 1..Len(pixels_iter) |-> from_slice(pixels_iter[i], n)]
    IN  IF UMul(w, h) = Panicked
        THEN [res |-> "panic", err |-> "none", img |-> Abort]
        ELSE IF Len(pixels_iter) # UMul(w, h)
        THEN [res |-> "Err", err |-> "InvalidDimensions", img |-> Abort]
        ELSE from_vec(w, h, v_pixels)

(***************************************************************************)
(* The inputs.                                                             *)
(***************************************************************************)
MaxChannels == 2

(* ImageBuffer2D::generate(w, h, f) *)
generate(w, h, f) ==
    [ok |-> TRUE, w |-> w, h |-> h,
     pix |-> [k \in 1..(w * h) |-> f[<<(k - 1) % w, (k - 1) \div w>>]]]

Coords(w, h) == (0..(w - 1)) \X (0..(h - 1))

Builds == {"debug", "release"}

Paddings(nch) ==
    {[kind |-> "Constant", val |-> [c \in 1..nch |-> v]] : v \in {0, 9}}
    \cup {[kind |-> kd, val |-> [c \in 1..nch |-> 0]] :
            kd \in {"Replicate", "Wrap", "Mirror"}}

(* Images whose subpixels are pairwise distinct and nonzero. *)
IndexImage(w, h, nch) ==
    generate(w, h, [xy \in Coords(w, h) |->
                       [c \in 1..nch |-> (xy[2] * w + xy[1]) * nch + c]])

(* A valid value of the subpixel type S. *)
Subpixel(S, n) == MinValue(S) + (n % (MaxValue(S) - MinValue(S) + 1))

ConstantImage(w, h, nch, S, n) ==
    generate(w, h, [xy \in Coords(w, h) |-> [c \in 1..nch |-> Subpixel(S, n)]])

RampImage(w, h, nch, S) ==
    generate(w, h, [xy \in Coords(w, h) |->
                       [c \in 1..nch |-> Subpixel(S, 37 * (xy[2] * w + xy[1]) + 11 * c)]])

(* Luma and LumaA pixels. *)
ConvChannels == {1, 2}

SourceTypes == {"u8", "i8"}
OutputTypes == {"u8", "i8", "i16"}

ConvImages(nch, S) ==
    {ConstantImage(w, h, nch, S, n) : w \in 1..MaxDim, h \in 1..MaxDim, n \in {228}}
    \cup {RampImage(w, h, nch, S) : w \in 1..MaxDim, h \in 1..MaxDim}

(* The kernels, each with its working type T. *)
Ones(radius) ==
    KernelNew([k \in 1..((2 * radius + 1) * (2 * radius + 1)) |-> 1], radius, 1)

Kernels ==
    {[k |-> kk, T |-> "f64"] :
        kk \in {KernelNew(<<1>>, 0, 1), sobel_x_3x3, sobel_y_3x3, Ones(1)}
               \cup {box_(r) : r \in 1..MaxRadius}}
    \cup {[k |-> kk, T |-> t] :
        kk \in {KernelNew(<<1>>, 0, 1), Ones(1)}, t \in {"i16", "u8"}}

(* No call in progress: the value of call and ret outside ApiSpec. *)
NoCall == [op |-> "none"]

(***************************************************************************)
(* The padding functions on their own.                                     *)
(***************************************************************************)
PadInit ==
    /\ \E w \in 1..MaxPadDim, h \in 1..MaxPadDim, nch \in 1..MaxChannels :
          /\ img = IndexImage(w, h, nch)
          /\ padding \in Paddings(nch)
    /\ size \in (0..MaxRadius) \X (0..MaxRadius)
    /\ build \in Builds
    /\ padded = Abort
    /\ kernel = BadKernel
    /\ tyS = "u8"
    /\ tyT = "u8"
    /\ tyO = "u8"
    /\ out = Abort
    /\ call = NoCall
    /\ ret = NoCall
    /\ views = << >>
    /\ pc = "input"

PadApply ==
    /\ pc = "input"
    /\ padded' = apply(padding, img, size)
    /\ pc' = "padded"
    /\ UNCHANGED <<img, padding, size, kernel, tyS, tyT, tyO, build, out>>
    /\ UNCHANGED <<call, ret, views>>

PadNext == PadApply

PadSpec == PadInit /\ [][PadNext]_vars

(***************************************************************************)
(* Convolution.  convolve hands its radius to Padding::apply, which pads   *)
(* by it on every side: size = <<radius, radius>>.                         *)
(***************************************************************************)
Init ==
    /\ \E nch \in ConvChannels :
          /\ tyS \in SourceTypes
          /\ img \in ConvImages(nch, tyS)
          /\ padding \in {pd \in Paddings(nch) : pd.val[1] = 0}
    /\ \E kt \in Kernels :
          /\ kernel = kt.k
          /\ tyT = kt.T
    /\ tyO \in OutputTypes
    /\ size = <<kernel.radius, kernel.radius>>
    /\ build \in Builds
    /\ padded = Abort
    /\ out = Abort
    /\ call = NoCall
    /\ ret = NoCall
    /\ views = << >>
    /\ pc = "input"

Convolve ==
    /\ pc = "input"
    /\ padded' = apply(padding, img, size)
    /\ out' = convolve_padded(kernel, img, padded', tyS, tyT, tyO)
    /\ pc' = "convolved"
    /\ UNCHANGED <<img, padding, size, kernel, tyS, tyT, tyO, build>>
    /\ UNCHANGED <<call, ret, views>>

Next == Convolve

Spec == Init /\ [][Next]_vars

(***************************************************************************)
(* Single calls of the library.  call is the operation with its arguments, *)
(* img the image it is called on and ret what it returns; the variables of *)
(* the convolution are not used.                                           *)
(***************************************************************************)
MaxApiDim == 3
MaxVecLen == 8
MaxRawLen == 7

(* The largest u32 of the model. *)
U32Max == U32Modulus - 1

NoConvolution ==
    /\ padding = [kind |-> "Constant", val |-> <<0>>]
    /\ size = <<0, 0>>
    /\ padded = Abort
    /\ kernel = BadKernel
    /\ tyS = "u8"
    /\ tyT = "u8"
    /\ tyO = "u8"
    /\ out = Abort
    /\ views = << >>

Returns(r) ==
    /\ pc = "input"
    /\ ret' = r
    /\ pc' = "returned"
    /\ UNCHANGED <<img, padding, size, padded, kernel, tyS, tyT, tyO, build, out,
                   call, views>>

ApiImages == {IndexImage(w, h, 1) : w \in 1..MaxApiDim, h \in 1..MaxApiDim}

(* Rects whose right() or bottom() exceeds u32. *)
BigRects ==
    {RectNew(U32Max, 0, 2, 1), RectNew(0, U32Max, 1, 2), RectNew(1, 1, U32Max, 1)}

SmallRects ==
    {RectNew(x, y, w, h) : x \in 0..1, y \in 0..1, w \in 1..2, h \in 1..2}

ApiRects ==
    {RectNew(x, y, w, h) : x \in 0..2, y \in 0..2, w \in 1..3, h \in 1..3}
    \cup BigRects

(***************************************************************************)
(* Rect: new, intersection, crop_to_image and translate_rect.              *)
(***************************************************************************)
RectCalls ==
    {[op |-> "rect_new", x |-> x, y |-> y, w |-> w, h |-> h] :
        x \in {0, 1, U32Max}, y \in {0, 1, U32Max},
        w \in {0, 1, 2, U32Max}, h \in {0, 1, 2, U32Max}}
    \cup {[op |-> "intersection", a |-> a, b |-> b] :
            a \in SmallRects \cup BigRects,
            b \in SmallRects \cup BigRects
                  \cup {RectNew(U32Max, 0, 1, 1), RectNew(0, U32Max, 1, 1)}}
    \cup {[op |-> "crop_to_image", rect |-> r] : r \in ApiRects}
    \cup {[op |-> "translate_rect", rect |-> r, x |-> x, y |-> y] :
            r \in SmallRects \cup BigRects, x \in (0 - 2)..2, y \in (0 - 2)..2}

(* The images of the calls; translate_rect only reads the dimensions and   *)
(* is also called on the images without pixels, ImageBuffer2D::new(0, h)   *)
(* and ImageBuffer2D::new(w, 0).                                           *)
RectInit ==
    /\ call \in RectCalls
    /\ img \in {IndexImage(w, h, 1) : w \in 1..2, h \in 1..2}
               \cup IF call.op = "translate_rect"
                    THEN {IndexImage(0, 1, 1), IndexImage(1, 0, 1), IndexImage(0, 0, 1)}
                    ELSE {}
    /\ build \in Builds
    /\ ret = NoCall
    /\ NoConvolution
    /\ pc = "input"

RectNewCall ==
    /\ call.op = "rect_new"
    /\ Returns([rect |-> RectNew(call.x, call.y, call.w, call.h)])

Intersection ==
    /\ call.op = "intersection"
    /\ Returns([opt |-> intersection(call.a, call.b)])

CropToImage ==
    /\ call.op = "crop_to_image"
    /\ Returns([opt |-> crop_to_image(call.rect, img)])

TranslateRect ==
    /\ call.op = "translate_rect"
    /\ Returns([opt |-> translate_rect(img, call.rect, call.x, call.y)])

RectNext == RectNewCall \/ Intersection \/ CropToImage \/ TranslateRect

RectSpec == RectInit /\ [][RectNext]_vars

(***************************************************************************)
(* Image2D / Image2DMut: sub_image, sub_image_mut, fill_rect, blit_rect.   *)
(***************************************************************************)
InnerRects ==
    {RectNew(0, 0, 1, 1), RectNew(1, 0, 1, 1), RectNew(0, 1, 1, 2), RectNew(1, 1, 2, 1)}

(* The source images of blit_rect; their pixels differ from those of the   *)
(* destination.                                                            *)
SourceImage(w, h) ==
    generate(w, h, [xy \in Coords(w, h) |-> <<100 + xy[2] * w + xy[1]>>])

ImageCalls ==
    {[op |-> "sub_image", rect |-> r, inner |-> r2] : r \in ApiRects, r2 \in InnerRects}
    \cup {[op |-> "sub_image_mut", rect |-> r] : r \in ApiRects}
    \cup {[op |-> "fill_rect", rect |-> r, value |-> <<77>>] : r \in ApiRects}
    \cup {[op |-> "blit_rect", src_rect |-> a, dst_rect |-> b, src |-> SourceImage(w, 2)] :
            a \in SmallRects \cup BigRects, b \in SmallRects \cup BigRects,
            w \in {2, 3}}

ImageInit ==
    /\ call \in ImageCalls
    /\ img \in ApiImages
    /\ build \in Builds
    /\ ret = NoCall
    /\ NoConvolution
    /\ pc = "input"

(* A view is returned unless the slicing panics. *)
ViewResult(v) == IF v.ok THEN "Ok" ELSE "panic"

SubImage ==
    /\ call.op = "sub_image"
    /\ LET v == sub_image(img, call.rect)
       IN  Returns([res |-> ViewResult(v), view |-> v,
                    inner |-> sub_image_of_view(v, call.inner), self |-> img])

SubImageMut ==
    /\ call.op = "sub_image_mut"
    /\ LET v == sub_image_mut(img, call.rect)
       IN  Returns([res |-> ViewResult(v), view |-> v, self |-> img])

FillRect ==
    /\ call.op = "fill_rect"
    /\ LET filled == fill_rect(img, call.rect, call.value)
       IN  Returns([res |-> IF filled.ok THEN "Ok" ELSE "panic", self |-> filled])

(* img is the destination; the source is only borrowed. *)
BlitRect ==
    /\ call.op = "blit_rect"
    /\ LET r == blit_rect(img, call.src_rect, call.dst_rect, call.src)
       IN  Returns([res |-> r.res, err |-> r.err, self |-> r.self, src |-> call.src])

ImageNext == SubImage \/ SubImageMut \/ FillRect \/ BlitRect

ImageSpec == ImageInit /\ [][ImageNext]_vars

(***************************************************************************)
(* ImageBuffer2D: from_vec, from_raw_vec and the way back.                 *)
(***************************************************************************)
(* A Vec of len one-channel pixels, all different. *)
PixelVec(len) == [i \in 1..len |-> <<10 + i>>]

(* A slice of len subpixels, all different and none zero. *)
RawVec(len) == [i \in 1..len |-> 10 + i]

(* The channel counts of Luma, LumaA, Rgb and RgbA. *)
ChannelCounts == 1..4

BufferCalls ==
    {[op |-> "from_vec", w |-> w, h |-> h, v |-> PixelVec(len)] :
        w \in 0..(MaxApiDim + 1), h \in 0..(MaxApiDim + 1), len \in 0..MaxVecLen}
    \cup {[op |-> "from_raw_vec", w |-> w, h |-> h, n |-> n, v |-> RawVec(len)] :
            w \in 0..2, h \in 0..2, n \in ChannelCounts, len \in 0..MaxRawLen}

BufferInit ==
    /\ call \in BufferCalls
    /\ img = Abort
    /\ build \in Builds
    /\ ret = NoCall
    /\ NoConvolution
    /\ pc = "input"

FromVec ==
    /\ call.op = "from_vec"
    /\ Returns(from_vec(call.w, call.h, call.v))

FromRawVec ==
    /\ call.op = "from_raw_vec"
    /\ Returns(from_raw_vec(call.w, call.h, call.n, call.v))

(* The image that from_vec returned is flattened again. *)
Flatten ==
    /\ pc = "returned"
    /\ call.op = "from_vec"
    /\ ret.res = "Ok"
    /\ ret' = [res |-> "Ok", err |-> "none", img |-> ret.img,
               raw |-> into_raw_vec(ret.img), iter |-> iter(ret.img)]
    /\ pc' = "flattened"
    /\ UNCHANGED <<img, padding, size, padded, kernel, tyS, tyT, tyO, build, out,
                   call, views>>

BufferNext == FromVec \/ FromRawVec \/ Flatten

BufferSpec == BufferInit /\ [][BufferNext]_vars

(***************************************************************************)
(* Kernel: new and the constructors built on it.                           *)
(***************************************************************************)
MaxKernelLen == 10

(* A radius whose (2r+1)^2 exceeds u32, and what the square wraps to. *)
BigRadius == 16384
WrappedSize == ((2 * BigRadius + 1) * (2 * BigRadius + 1)) % U32Modulus

KernelCalls ==
    {[op |-> "kernel_new", elems |-> [i \in 1..len |-> 1], radius |-> r] :
        r \in 0..MaxRadius \cup {BigRadius},
        len \in 0..MaxKernelLen \cup {(2 * k + 1) * (2 * k + 1) : k \in 0..MaxRadius}
                \cup {WrappedSize}}
    \cup {[op |-> "box_", radius |-> r] : r \in 0..MaxRadius}
    \cup {[op |-> "gaussian", radius |-> r, sigma |-> sg] :
            r \in 0..MaxRadius, sg \in 1..2}
    \cup {[op |-> "sobel_x_3x3", radius |-> 1], [op |-> "sobel_y_3x3", radius |-> 1]}

KernelInit ==
    /\ call \in KernelCalls
    /\ img = Abort
    /\ build \in Builds
    /\ ret = NoCall
    /\ NoConvolution
    /\ pc = "input"

KernelNewCall ==
    /\ call.op = "kernel_new"
    /\ Returns(kernel_new(call.elems, call.radius))

(* The constructors unwrap the result of Kernel::new. *)
Constructed(k) == [res |-> IF k.ok THEN "Ok" ELSE "panic", k |-> k]

Box ==
    /\ call.op = "box_"
    /\ Returns(Constructed(box_(call.radius)))

Gaussian ==
    /\ call.op = "gaussian"
    /\ Returns(Constructed(gaussian(call.sigma, call.radius)))

SobelX ==
    /\ call.op = "sobel_x_3x3"
    /\ Returns(Constructed(sobel_x_3x3))

SobelY ==
    /\ call.op = "sobel_y_3x3"
    /\ Returns(Constructed(sobel_y_3x3))

KernelNext == KernelNewCall \/ Box \/ Gaussian \/ SobelX \/ SobelY

KernelSpec == KernelInit /\ [][KernelNext]_vars

(***************************************************************************)
(* Borrows.  sub_image takes &self and sub_image_mut takes &mut self, and  *)
(* the view each returns keeps that borrow of its receiver for as long as  *)
(* it lives.  Handle 0 is the owned image, handle k > 0 the view views[k]; *)
(* a view is taken of the owner or of another view.  The Sync              *)
(* implementation of Image2DRepr lets any thread hold a shared borrow; it  *)
(* gives no thread a way to a mutable one, so the handles are not told     *)
(* apart by thread.                                                        *)
(***************************************************************************)
MaxViews == 3

Handles == 0..MaxViews

NoView == [live |-> FALSE, parent |-> 0, mut |-> FALSE, view |-> BadView]

Live(h) == IF h = 0 THEN TRUE ELSE views[h].live

(* The owner is a mutable binding; an Image2DView has no mutable methods. *)
Mutable(h) == IF h = 0 THEN TRUE ELSE views[h].mut

Children(h) == {c \in 1..MaxViews : views[c].live /\ views[c].parent = h}

(* The window of handle h in the owner's buffer. *)
Region(h) ==
    IF h = 0 THEN [ok |-> TRUE, x0 |-> 0, y0 |-> 0, w |-> img.w, h |-> img.h]
    ELSE views[h].view

borrow_mut_as_shared(h) ==
    /\ Live(h)
    /\ Mutable(h)
    /\ \A c \in Children(h) : ~views[c].mut

(* The receiver &self: h is live and not mutably borrowed. *)
borrow_shared(h) ==
    /\ Live(h)
    /\ \A c \in Children(h) : ~views[c].mut

(* The receiver &mut self: h is live, mutable and not borrowed at all. *)
borrow_mut(h) ==
    /\ Live(h)
    /\ Mutable(h)
    /\ Children(h) = {}

BorrowRects ==
    {RectNew(0, 0, 1, 1), RectNew(1, 0, 1, 1), RectNew(0, 0, 2, 1),
     RectNew(0, 1, 2, 1), RectNew(0, 0, 2, 2)}

FreeSlot == CHOOSE k \in 1..MaxViews : ~views[k].live /\ \A j \in 1..(k - 1) : views[j].live

BorrowInit ==
    /\ img = IndexImage(2, 2, 1)
    /\ views = [k \in 1..MaxViews |-> NoView]
    /\ build \in Builds
    /\ call = NoCall
    /\ ret = NoCall
    /\ padding = [kind |-> "Constant", val |-> <<0>>]
    /\ size = <<0, 0>>
    /\ padded = Abort
    /\ kernel = BadKernel
    /\ tyS = "u8"
    /\ tyT = "u8"
    /\ tyO = "u8"
    /\ out = Abort
    /\ pc = "borrow"

Acquire(h, r, mutable) ==
    /\ pc = "borrow"
    /\ \E k \in 1..MaxViews : ~views[k].live
    /\ sub_image_of_view(Region(h), r).ok
    /\ views' = [views EXCEPT ![FreeSlot] =
                    [live |-> TRUE, parent |-> h, mut |-> mutable,
                     view |-> sub_image_of_view(Region(h), r)]]
    /\ UNCHANGED <<img, padding, size, padded, kernel, tyS, tyT, tyO, build, out,
                   pc, call, ret>>

(* let v = h.sub_image(r) *)
AcquireView ==
    \E h \in Handles, r \in BorrowRects :
        /\ borrow_shared(h)
        /\ Acquire(h, r, FALSE)

(* let v = h.sub_image_mut(r) *)
AcquireViewMut ==
    \E h \in Handles, r \in BorrowRects :
        /\ borrow_mut(h)
        /\ Acquire(h, r, TRUE)

(* A view goes out of scope; it cannot while a view taken of it lives. *)
Release ==
    \E k \in 1..MaxViews :
        /\ pc = "borrow"
        /\ views[k].live
        /\ Children(k) = {}
        /\ views' = [views EXCEPT ![k] = NoView]
        /\ UNCHANGED <<img, padding, size, padded, kernel, tyS, tyT, tyO, build, out,
                       pc, call, ret>>

BorrowNext == AcquireView \/ AcquireViewMut \/ Release

BorrowSpec == BorrowInit /\ [][BorrowNext]_vars

(***************************************************************************)
(* Writing through a MutableView: let mut v = img.sub_image_mut(rect),     *)
(* then v.put_pixel(i, j, p) and v.fill(p) any number of times, then v     *)
(* goes out of scope.  The view is a slice of the owner's buffer, so a     *)
(* write through it is a write to img; ret.written records the last value  *)
(* written to each pixel of the view.                                      *)
(***************************************************************************)
MaxWrites == 3

WriteValues == {<<50>>, <<51>>}

WriteInit ==
    /\ call \in {[op |-> "sub_image_mut", rect |-> r] :
                    r \in {RectNew(x, y, w, h) :
                              x \in 0..2, y \in 0..1, w \in 1..2, h \in 1..2}
                          \cup BigRects}
    /\ img \in {IndexImage(w, h, 1) : w \in 2..3, h \in 2..3}
    /\ build \in Builds
    /\ views = [k \in 1..MaxViews |-> NoView]
    /\ ret = [written |-> << >>]
    /\ padding = [kind |-> "Constant", val |-> <<0>>]
    /\ size = <<0, 0>>
    /\ padded = Abort
    /\ kernel = BadKernel
    /\ tyS = "u8"
    /\ tyT = "u8"
    /\ tyO = "u8"
    /\ out = Abort
    /\ pc = "owner"

(* let mut v = img.sub_image_mut(call.rect); the slicing panics when the   *)
(* rect does not lie within the image.                                     *)
TakeViewMut ==
    /\ pc = "owner"
    /\ borrow_mut(0)
    /\ LET v == sub_image_mut(img, call.rect)
       IN  IF v.ok
           THEN /\ views' = [views EXCEPT ![1] =
                              [live |-> TRUE, parent |-> 0, mut |-> TRUE, view |-> v]]
                /\ pc' = "view"
           ELSE /\ views' = views
                /\ pc' = "panicked"
    /\ UNCHANGED <<img, padding, size, padded, kernel, tyS, tyT, tyO, build, out,
                   call, ret>>

(* v.put_pixel(i, j, p): indexing the view's buffer panics outside it. *)
PutPixel ==
    \E i \in 0..2, j \in 0..2, p \in WriteValues :
        /\ pc = "view"
        /\ borrow_mut(1)
        /\ Cardinality(DOMAIN ret.written \cup {<<i, j>>}) <= MaxWrites
        /\ IF <<i, j>> \in view_indices(views[1].view)
           THEN /\ img' = view_write(img, views[1].view, <<i, j>> :> p)
                /\ ret' = [written |-> (<<i, j>> :> p) @@ ret.written]
                /\ pc' = pc
           ELSE /\ img' = img
                /\ ret' = ret
                /\ pc' = "panicked"
        /\ UNCHANGED <<padding, size, padded, kernel, tyS, tyT, tyO, build, out,
                       call, views>>

(* v.fill(p) *)
FillView ==
    \E p \in WriteValues :
        /\ pc = "view"
        /\ borrow_mut(1)
        /\ Cardinality(view_indices(views[1].view)) <= MaxWrites
        /\ img' = view_write(img, views[1].view,
                             [ij \in view_indices(views[1].view) |-> p])
        /\ ret' = [written |-> [ij \in view_indices(views[1].view) |-> p]]
        /\ UNCHANGED <<padding, size, padded, kernel, tyS, tyT, tyO, build, out,
                       pc, call, views>>

(* v goes out of scope. *)
DropView ==
    /\ pc = "view"
    /\ Children(1) = {}
    /\ views' = [views EXCEPT ![1] = NoView]
    /\ pc' = "released"
    /\ UNCHANGED <<img, padding, size, padded, kernel, tyS, tyT, tyO, build, out,
                   call, ret>>

WriteNext == TakeViewMut \/ PutPixel \/ FillView \/ DropView

WriteSpec == WriteInit /\ [][WriteNext]_vars

(***************************************************************************)
(* Pixel: clamp, from_slice and set_to_slice.  A pixel is the sequence of  *)
(* its channels.                                                           *)
(***************************************************************************)
MaxSliceLen == 5

(* The receiver of set_to_slice has n channels, none of them in RawVec. *)
PixelCalls ==
    {[op |-> "clamp", p |-> p, low |-> lh[1], high |-> lh[2]] :
        p \in UNION {[1..n -> {0, 2, 5}] : n \in 1..3},
        lh \in {<<1, 1>>, <<1, 3>>, <<3, 3>>, <<0, 5>>}}
    \cup {[op |-> "from_slice", s |-> RawVec(len), n |-> n] :
            len \in 0..MaxSliceLen, n \in ChannelCounts}
    \cup {[op |-> "set_to_slice", p |-> [c \in 1..n |-> 90 + c],
           s |-> RawVec(len), n |-> n] :
            len \in 0..MaxSliceLen, n \in ChannelCounts}

PixelInit ==
    /\ call \in PixelCalls
    /\ img = Abort
    /\ build \in Builds
    /\ ret = NoCall
    /\ NoConvolution
    /\ pc = "input"

(* p.clamp(low, high) *)
PixelClamp ==
    /\ call.op = "clamp"
    /\ Returns([res |-> "Ok", pixel |-> pixel_clamp(call.p, call.low, call.high)])

(* P::from_slice(s) *)
FromSlice ==
    /\ call.op = "from_slice"
    /\ Returns([res |-> "Ok", pixel |-> from_slice(call.s, call.n)])

(* p.set_to_slice(s) *)
SetToSlice ==
    /\ call.op = "set_to_slice"
    /\ Returns([res |-> "Ok", pixel |-> set_to_slice(call.p, call.s)])

PixelNext == PixelClamp \/ FromSlice \/ SetToSlice

PixelSpec == PixelInit /\ [][PixelNext]_vars

(***************************************************************************)
(* core/neighborhood.rs                                                    *)
(***************************************************************************)
(* RectNeighborhood::new(size, origin) *)
rect_neighborhood_new(sz, origin) ==
    IF origin[1] <= sz[1] /\ origin[2] < sz[2] /\ sz[1] > 0 /\ sz[2] > 0
    THEN [some |-> TRUE, size |-> sz, origin |-> origin]
    ELSE [some |-> FALSE, size |-> <<0, 0>>, origin |-> <<0, 0>>]

MaxNeighborhood == 3

NeighborhoodInit ==
    /\ call \in {[op |-> "rect_neighborhood_new", size |-> sz, origin |-> o] :
                    sz \in (0..MaxNeighborhood) \X (0..MaxNeighborhood),
                    o \in (0..MaxNeighborhood) \X (0..MaxNeighborhood)}
    /\ img = Abort
    /\ build \in Builds
    /\ ret = NoCall
    /\ NoConvolution
    /\ pc = "input"

RectNeighborhoodNew ==
    /\ call.op = "rect_neighborhood_new"
    /\ Returns([opt |-> rect_neighborhood_new(call.size, call.origin)])

NeighborhoodNext == RectNeighborhoodNew

NeighborhoodSpec == NeighborhoodInit /\ [][NeighborhoodNext]_vars

(***************************************************************************)
(* draw.rs                                                                 *)
(***************************************************************************)
(* The closure compute_bounds of draw_cross; it captures the image width   *)
(* w and is applied to both coordinates.                                   *)
compute_bounds(c, sz, w) ==
    LET cs == IF c >= sz THEN c - sz ELSE 0
        ce == UAdd(c, sz)
    IN  <<cs, IF ce >= w THEN USub(w, 1) ELSE ce>>

(* draw_cross: skip(s).take(n) of row_mut(y) / col_mut(x) reaches the      *)
(* pixels s, ..., s + n - 1 of the row / column, as far as it has them.    *)
draw_cross(im, coords, sz, color) ==
    LET xb == compute_bounds(coords[1], sz, im.w)
        yb == compute_bounds(coords[2], sz, im.w)
        nx == UAdd(USub(xb[2], xb[1]), 1)
        ny == UAdd(USub(yb[2], yb[1]), 1)
    IN  IF ~(coords[1] < im.w /\ coords[2] < im.h) THEN im
        ELSE IF nx < 0 \/ ny < 0 THEN Abort
        ELSE [im EXCEPT !.pix = [k \in 1..(im.w * im.h) |->
                LET x == (k - 1) % im.w
                    y == (k - 1) \div im.w
                IN  IF \/ (y = coords[2] /\ x >= xb[1] /\ x < xb[1] + nx)
                       \/ (x = coords[1] /\ y >= yb[1] /\ y < yb[1] + ny)
                    THEN color ELSE im.pix[k]]]

MaxDrawDim == 3

DrawInit ==
    /\ call \in {[op |-> "draw_cross", coords |-> c, size |-> sz, color |-> <<77>>] :
                    c \in (0..MaxDrawDim) \X (0..MaxDrawDim),
                    sz \in {0, 1, 2, U32Max}}
    /\ img \in {IndexImage(w, h, 1) : w \in 1..MaxDrawDim, h \in 1..MaxDrawDim}
    /\ build \in Builds
    /\ ret = NoCall
    /\ NoConvolution
    /\ pc = "input"

DrawCross ==
    /\ call.op = "draw_cross"
    /\ LET drawn == draw_cross(img, call.coords, call.size, call.color)
       IN  Returns([res |-> IF drawn.ok THEN "Ok" ELSE "panic", self |-> drawn])

DrawNext == DrawCross

DrawSpec == DrawInit /\ [][DrawNext]_vars

(***************************************************************************)
(* Properties of the padding functions (checked under PadSpec).            *)
(***************************************************************************)
SquareRadius == size[1] = size[2]
Radius == size[1]
PadDone(kind) == pc = "padded" /\ padding.kind = kind /\ SquareRadius

(* Every pixel of the padded image is the source pixel that Src names. *)
PaddedIs(SrcX(_), SrcY(_)) ==
    /\ padded.ok
    /\ padded.w = img.w + 2 * Radius
    /\ padded.h = img.h + 2 * Radius
    /\ \A i \in 0..(padded.w - 1), j \in 0..(padded.h - 1) :
          get_pixel(padded, i, j) = get_pixel(img, SrcX(i), SrcY(j))

Reflect(t, n) == IF t < 0 THEN 0 - t - 1 ELSE IF t >= n THEN 2 * n - 1 - t ELSE t

PaddingKeepsInterior ==
    (pc = "padded" /\ SquareRadius /\ Radius >= 1 /\ Radius <= Min(img.w, img.h))
    => /\ padded.ok
       /\ padded.w = img.w + 2 * Radius
       /\ padded.h = img.h + 2 * Radius
       /\ \A x \in 0..(img.w - 1), y \in 0..(img.h - 1) :
             get_pixel(padded, x + Radius, y + Radius) = get_pixel(img, x, y)

InteriorWitness ==
    /\ pc = "padded"
    /\ padding.kind \in {"Replicate", "Wrap", "Mirror"}
    /\ Radius = 2
    /\ SquareRadius
    /\ img.w = 3
    /\ img.h = 2
    /\ padded.ok
    /\ padded.w = 7

(* C4: pad_wrap is a toroidal wrap: for 1 <= r <= min(w,h), padded pixel   *)
(* (i,j) is source pixel ((i-r) mod w, (j-r) mod h).                       *)
WrapIsToroidal ==
    (PadDone("Wrap") /\ Radius >= 1 /\ Radius <= Min(img.w, img.h))
    => LET SX(i) == (i - Radius + img.w) % img.w
           SY(j) == (j - Radius + img.h) % img.h
       IN  PaddedIs(SX, SY)

WrapWitness ==
    /\ PadDone("Wrap")
    /\ Radius = 1
    /\ img.w = 4
    /\ padded.ok
    /\ get_pixel(padded, 0, 1) = get_pixel(img, 3, 0)
    /\ get_pixel(padded, 5, 1) = get_pixel(img, 0, 0)

(* C5: pad_replicate extends the border: for every r >= 1, padded pixel    *)
(* (i,j) is source pixel (clamp(i-r, 0, w-1), clamp(j-r, 0, h-1)).         *)
ReplicateExtendsBorder ==
    (PadDone("Replicate") /\ Radius >= 1)
    => LET SX(i) == clamp(i - Radius, 0, img.w - 1)
           SY(j) == clamp(j - Radius, 0, img.h - 1)
       IN  PaddedIs(SX, SY)

ReplicateWitness ==
    /\ PadDone("Replicate")
    /\ Radius = 2
    /\ img.w = 1
    /\ img.h = 3
    /\ padded.ok
    /\ get_pixel(padded, 4, 6) = get_pixel(img, 0, 2)

(***************************************************************************)
(* Properties of convolve (checked under Spec).                            *)
(***************************************************************************)
Extending == padding.kind \in {"Replicate", "Wrap", "Mirror"}

IsConstantImage == \A i \in 1..(img.w * img.h) : img.pix[i] = img.pix[1]

Pixels == 1..(img.w * img.h)
Channels == 1..Len(img.pix[1])
PX(i) == (i - 1) % img.w
PY(i) == (i - 1) \div img.w

(* The sum, over the full (2r+1) x (2r+1) window of the padded image whose *)
(* top-left corner is (x, y), of window pixel n times kernel element n, as *)
(* a numerator over kernel.den.                                            *)
RECURSIVE FullWindowSum(_, _, _, _)
FullWindowSum(x, y, c, n) ==
    LET d == 2 * kernel.radius + 1
    IN  IF n = 0 THEN 0
        ELSE FullWindowSum(x, y, c, n - 1)
             + kernel.elems[n] * get_pixel(padded, x + ((n - 1) % d), y + ((n - 1) \div d))[c]

(* A numerator over kernel.den, clamped to the range of tyS and cast to tyO. *)
ClampedCast(v) ==
    LET cl == clamp(v, MinValue(tyS) * kernel.den, MaxValue(tyS) * kernel.den)
        tr == TruncDiv(cl, kernel.den)
    IN  IF InRange(tr, tyO) THEN tr ELSE 0

(* C1 as stated (for the float working type and a padding that completed): *)
(* convolve returns a w x h image whose every pixel (x, y), also near the  *)
(* right and bottom edges, is computed from the full (2r+1) x (2r+1)       *)
(* window of the padded buffer at (x, y), window pixel k times kernel      *)
(* element k.                                                              *)
ConvolveUsesFullWindow ==
    (pc = "convolved" /\ padded.ok /\ tyT = "f64")
    => /\ out.ok
       /\ out.w = img.w
       /\ out.h = img.h
       /\ \A i \in Pixels, c \in Channels :
             out.pix[i][c]
               = ClampedCast(FullWindowSum(PX(i), PY(i), c, Len(kernel.elems)))

(* C6: every channel convolve returns is the accumulated sum clamped into  *)
(* the range of the source type S and then cast to O, 0 when that cast     *)
(* fails; so no output channel lies outside the range of S.                *)
OutputClampedToSourceRange ==
    (pc = "convolved" /\ out.ok)
    => \A i \in Pixels, c \in Channels :
          /\ InRange(out.pix[i][c], tyS)
          /\ LET wr == window_rect(kernel, img, PX(i), PY(i)).rect
                 acc == accumulate(kernel, padded, wr,
                                   window_len(kernel, img, PX(i), PY(i)), c, tyS, tyT)
                 den == IF IsFloat(tyT) THEN kernel.den ELSE 1
                 cl == clamp(acc.v, MinValue(tyS) * den, MaxValue(tyS) * den)
                 tr == TruncDiv(cl, den)
             IN  /\ acc.some
                 /\ out.pix[i][c] = IF InRange(tr, tyO) THEN tr ELSE 0

ClampWitness ==
    /\ pc = "convolved"
    /\ out.ok
    /\ tyS = "u8"
    /\ tyO = "i16"
    /\ tyT = "f64"
    /\ \E i \in Pixels :
          /\ accumulate(kernel, padded, window_rect(kernel, img, PX(i), PY(i)).rect,
                        window_len(kernel, img, PX(i), PY(i)), 1, tyS, tyT).v
               > 255 * kernel.den
          /\ out.pix[i][1] = 255

(* C7 as stated (for the float working type): with the 1x1 kernel [1] of   *)
(* radius 0 and O = S, convolve completes under every padding policy and   *)
(* returns the input image.                                                *)
IdentityKernelReturnsInput ==
    (pc = "convolved" /\ kernel = KernelNew(<<1>>, 0, 1) /\ tyT = "f64" /\ tyO = tyS)
    => out = img

(* C8 as stated: with Kernel::box_(r), r >= 1, a constant image and a      *)
(* padding that extends the constant, every output pixel equals the        *)
(* constant, up to a rounding error of one unit.                           *)
BoxKernelPreservesConstant ==
    (/\ pc = "convolved"
     /\ \E r \in 1..MaxRadius : kernel = box_(r)
     /\ kernel.radius <= Min(img.w, img.h)
     /\ IsConstantImage /\ Extending /\ tyT = "f64" /\ tyO = tyS)
    => /\ out.ok
       /\ \A i \in Pixels, c \in Channels :
             /\ out.pix[i][c] - img.pix[i][c] <= 1
             /\ img.pix[i][c] - out.pix[i][c] <= 1

(* C9 as stated: with sobel_x_3x3 or sobel_y_3x3, a constant image and a   *)
(* padding that extends the constant, every output pixel is zero, for      *)
(* signed and unsigned source types.                                       *)
SobelOfConstantIsZero ==
    (/\ pc = "convolved"
     /\ kernel \in {sobel_x_3x3, sobel_y_3x3}
     /\ IsConstantImage /\ Extending /\ tyT = "f64" /\ padded.ok)
    => /\ out.ok
       /\ \A i \in Pixels, c \in Channels : out.pix[i][c] = 0

(* C10 as stated, for convolve: no cast aborts.  In a release build        *)
(* arithmetic wraps, so once the padding has completed the unwrap of a     *)
(* failed cast is the only way convolve can abort.                         *)
CastsNeverAbort ==
    (pc = "convolved" /\ padded.ok /\ build = "release")
    => /\ out.ok
       /\ clamp_min(tyS, tyT, kernel.den).some
       /\ clamp_max(tyS, tyT, kernel.den).some

(***************************************************************************)
(* Properties of views, blit_rect and fill_rect (checked under ImageSpec). *)
(***************************************************************************)
Returned(op) == pc = "returned" /\ call.op = op

(* The rect lies within a w x h image: right() < w and bottom() < h, for   *)
(* right = left + width - 1 and bottom = top + height - 1.                 *)
Fits(r, w, h) == r.left + r.width - 1 < w /\ r.top + r.height - 1 < h

(* View v of img has the size of r and its pixel (i, j) is pixel           *)
(* (left + i, top + j) of the window base of img.                          *)
ViewIsWindow(v, base, r) ==
    /\ v.ok
    /\ <<v.w, v.h>> = <<r.width, r.height>>
    /\ \A ij \in view_indices(v) :
          view_pixel(img, v, ij[1], ij[2])
            = view_pixel(img, base, r.left + ij[1], r.top + ij[2])

WholeImage == [ok |-> TRUE, x0 |-> 0, y0 |-> 0, w |-> img.w, h |-> img.h]

(* C11: for every rect r that fits the image, sub_image(r) has dimensions  *)
(* (r.width, r.height) and its pixel (i, j) is the image's pixel           *)
(* (r.left + i, r.top + j); the same holds for the sub-image of a view,    *)
(* taken by a rect that fits the view: the offsets compose.                *)
SubImageInvariant ==
    (Returned("sub_image") /\ Fits(call.rect, img.w, img.h))
    => /\ ViewIsWindow(ret.view, WholeImage, call.rect)
       /\ Fits(call.inner, ret.view.w, ret.view.h)
            => ViewIsWindow(ret.inner, ret.view, call.inner)

SubImageWitness ==
    /\ Returned("sub_image")
    /\ img.w = 3
    /\ img.h = 3
    /\ call.rect = RectNew(1, 1, 2, 2)
    /\ call.inner = RectNew(1, 0, 1, 1)
    /\ ret.inner.ok
    /\ view_pixel(img, ret.inner, 0, 0) = get_pixel(img, 2, 1)

(***************************************************************************)
(* Properties of the borrows (checked under BorrowSpec).                   *)
(***************************************************************************)
(* Handle h can be read through: it is live and no mutable view taken of   *)
(* it is alive.  It can be written through when it is mutable and no view  *)
(* taken of it is alive.                                                   *)
CanRead(h) == Live(h) /\ \A c \in Children(h) : ~views[c].mut
CanWrite(h) == Live(h) /\ Mutable(h) /\ Children(h) = {}

Overlap(a, b) ==
    /\ a.x0 < b.x0 + b.w
    /\ b.x0 < a.x0 + a.w
    /\ a.y0 < b.y0 + b.h
    /\ b.y0 < a.y0 + a.h

(* Handle h is a view taken of m, or of a view taken of m, and so on. *)
RECURSIVE BorrowedFrom(_, _)
BorrowedFrom(h, m) ==
    IF h = 0 THEN FALSE
    ELSE views[h].parent = m \/ BorrowedFrom(views[h].parent, m)

BlitErrorsAreReturned ==
    Returned("blit_rect")
    => LET mismatch == <<call.src_rect.width, call.src_rect.height>>
                         # <<call.dst_rect.width, call.dst_rect.height>>
           outside == \/ ~Fits(call.src_rect, call.src.w, call.src.h)
                      \/ ~Fits(call.dst_rect, img.w, img.h)
       IN  /\ mismatch => (ret.res = "Err" /\ ret.err = "RectSizeMismatch")
           /\ (~mismatch /\ outside) => (ret.res = "Err" /\ ret.err = "RectOutOfBounds")
           /\ (mismatch \/ outside) => ret.self = img

(* C14: when the rects have equal size and each fits its image, blit_rect  *)
(* returns Ok; destination pixel (dst.left + i, dst.top + j) is then       *)
(* source pixel (src.left + i, src.top + j) for every offset of the rect,  *)
(* every other destination pixel and the source are unchanged.             *)
BlitCopiesRect ==
    (/\ Returned("blit_rect")
     /\ <<call.src_rect.width, call.src_rect.height>>
          = <<call.dst_rect.width, call.dst_rect.height>>
     /\ Fits(call.src_rect, call.src.w, call.src.h)
     /\ Fits(call.dst_rect, img.w, img.h))
    => /\ ret.res = "Ok"
       /\ <<ret.self.w, ret.self.h>> = <<img.w, img.h>>
       /\ \A x \in 0..(img.w - 1), y \in 0..(img.h - 1) :
            LET i == x - call.dst_rect.left
                j == y - call.dst_rect.top
            IN  get_pixel(ret.self, x, y)
                  = IF /\ 0 <= i /\ i < call.dst_rect.width
                       /\ 0 <= j /\ j < call.dst_rect.height
                    THEN get_pixel(call.src, call.src_rect.left + i,
                                   call.src_rect.top + j)
                    ELSE get_pixel(img, x, y)
       /\ ret.src = call.src

BlitWitness ==
    /\ Returned("blit_rect")
    /\ ret.res = "Ok"
    /\ call.src_rect = RectNew(1, 0, 2, 2)
    /\ call.dst_rect = RectNew(0, 1, 2, 2)
    /\ get_pixel(ret.self, 1, 2) = get_pixel(call.src, 2, 1)
    /\ get_pixel(ret.self, 1, 0) = get_pixel(img, 1, 0)

(* C15: sub_image, sub_image_mut and fill_rect called with a rect that     *)
(* does not fit the image return an error to the caller; they do not       *)
(* abort.                                                                  *)
NonFittingRectIsRecoverable ==
    (/\ pc = "returned"
     /\ call.op \in {"sub_image", "sub_image_mut", "fill_rect"}
     /\ ~Fits(call.rect, img.w, img.h))
    => ret.res = "Err"

(***************************************************************************)
(* Properties of the constructors (checked under BufferSpec).              *)
(***************************************************************************)
(* C16: from_raw_vec(w, h, v) for a pixel type of N channels fails with    *)
(* InvalidDimensions whenever v.len() # w*h*N, so that no pixel is built   *)
(* from fewer than N subpixels.                                            *)
RawVecLengthIsChecked ==
    Returned("from_raw_vec")
    => /\ Len(call.v) # call.w * call.h * call.n
            => (ret.res = "Err" /\ ret.err = "InvalidDimensions")
       /\ ret.res = "Ok" => Len(call.v) = call.w * call.h * call.n

(* C17: from_vec(w, h, v) returns InvalidDimensions if and only if         *)
(* v.len() # w*h; the image it returns otherwise has dimensions (w, h).    *)
FromVecChecksLength ==
    (pc # "input" /\ call.op = "from_vec")
    => /\ ret.res \in {"Ok", "Err"}
       /\ (ret.res = "Err" /\ ret.err = "InvalidDimensions")
            <=> Len(call.v) # call.w * call.h
       /\ ret.res = "Ok" => <<ret.img.w, ret.img.h>> = <<call.w, call.h>>

FromVecWitness ==
    /\ Returned("from_vec")
    /\ call.w = 2
    /\ call.h = 3
    /\ Len(call.v) = 6
    /\ ret.res = "Ok"
    /\ <<ret.img.w, ret.img.h>> = <<2, 3>>

(* C18: from_vec(w, h, v) followed by into_raw_vec, or by iteration over   *)
(* the image, yields v in the same order, and get_pixel(x, y) is           *)
(* v[y*w + x]: the layout is row-major.                                    *)
FromVecRoundTrip ==
    (pc = "flattened")
    => /\ ret.raw = call.v
       /\ ret.iter = call.v
       /\ \A x \in 0..(call.w - 1), y \in 0..(call.h - 1) :
            get_pixel(ret.img, x, y) = call.v[y * call.w + x + 1]

RoundTripWitness ==
    /\ pc = "flattened"
    /\ call.w = 2
    /\ call.h = 3
    /\ ret.raw = call.v
    /\ get_pixel(ret.img, 1, 2) = call.v[6]
    /\ get_pixel(ret.img, 0, 1) = call.v[3]

(***************************************************************************)
(* Properties of Kernel::new (checked under KernelSpec).                   *)
(***************************************************************************)
(* C19: Kernel::new(elems, radius) returns an error if and only if         *)
(* elems.len() # (2*radius+1)^2, so every kernel that exists, those of     *)
(* box_, gaussian, sobel_x_3x3 and sobel_y_3x3 included, has (2r+1)^2      *)
(* elements.                                                               *)
KernelHasSquareCount ==
    pc = "returned"
    => LET n == (2 * call.radius + 1) * (2 * call.radius + 1)
       IN  /\ call.op = "kernel_new"
                => (ret.res = "Err" <=> Len(call.elems) # n)
           /\ ret.res = "Ok"
                => (Len(ret.k.elems) = n /\ ret.k.radius = call.radius)

(***************************************************************************)
(* Properties of Rect (checked under RectSpec).                            *)
(***************************************************************************)
RectWellFormed(r) ==
    /\ r.width > 0
    /\ r.height > 0
    /\ right(r) = r.left + r.width - 1
    /\ bottom(r) = r.top + r.height - 1

(* C20: Rect::new(x, y, w, h) fails if and only if w = 0 or h = 0, so      *)
(* every Rect that exists, those returned by intersection, crop_to_image   *)
(* and translate_rect included, has width > 0 and height > 0, with         *)
(* right() = left + width - 1 and bottom() = top + height - 1.             *)
EveryRectIsWellFormed ==
    pc = "returned"
    => /\ call.op = "rect_new"
            => /\ ~ret.rect.ok <=> (call.w = 0 \/ call.h = 0)
               /\ ret.rect.ok => RectWellFormed(ret.rect)
       /\ call.op \in {"intersection", "crop_to_image", "translate_rect"}
            => ((ret.opt.some /\ ret.opt.rect.ok) => RectWellFormed(ret.opt.rect))

(* The point (x, y) lies in r: left <= x <= left + width - 1 and           *)
(* top <= y <= top + height - 1.                                           *)
Inside(r, x, y) ==
    /\ r.left <= x /\ x <= r.left + r.width - 1
    /\ r.top <= y /\ y <= r.top + r.height - 1

(* The coordinates at which two rects of the calls can differ. *)
Probes == (0..4) \cup {U32Max - 1, U32Max}

(* opt is the intersection of a and b: None exactly when the rects are     *)
(* disjoint, otherwise the Rect of their common points.                    *)
IsIntersection(opt, a, b) ==
    LET l == Max(a.left, b.left)
        t == Max(a.top, b.top)
        r == Min(a.left + a.width - 1, b.left + b.width - 1)
        bt == Min(a.top + a.height - 1, b.top + b.height - 1)
    IN  /\ ~opt.some <=> (l > r \/ t > bt)
        /\ opt.some
             => /\ opt.rect.ok
                /\ \A x \in Probes, y \in Probes :
                      Inside(opt.rect, x, y) <=> (Inside(a, x, y) /\ Inside(b, x, y))

(* C21: a.intersection(b) is None if and only if                           *)
(* max(a.left, b.left) > min(a.right, b.right) or                          *)
(* max(a.top, b.top) > min(a.bottom, b.bottom); otherwise it is the Rect   *)
(* of exactly the points that lie in both a and b; b.intersection(a) is    *)
(* the same; crop_to_image(img) is the intersection with                   *)
(* Rect(0, 0, img.width, img.height) and, when it is Some, fits the image. *)
IntersectionIsCommonPoints ==
    /\ Returned("intersection")
         => /\ IsIntersection(ret.opt, call.a, call.b)
            /\ ret.opt = intersection(call.b, call.a)
    /\ Returned("crop_to_image")
         => /\ IsIntersection(ret.opt, call.rect,
                              [ok |-> TRUE, left |-> 0, top |-> 0,
                               width |-> img.w, height |-> img.h])
            /\ ret.opt.some => Fits(ret.opt.rect, img.w, img.h)

(* C22: translate_rect(rect, dx, dy) on a w x h image returns None if and  *)
(* only if the rect shifted by (dx, dy) has no pixel in common with the    *)
(* image; otherwise it returns exactly the part of the shifted rect that   *)
(* lies inside the image, which fits the image and has a strictly positive *)
(* size.                                                                   *)
TranslateShiftsThenClips ==
    Returned("translate_rect")
    => LET shifted == [call.rect EXCEPT !.left = @ + call.x, !.top = @ + call.y]
           InImage(x, y) == x < img.w /\ y < img.h
           common == \E x \in Probes, y \in Probes :
                        InImage(x, y) /\ Inside(shifted, x, y)
       IN  /\ ~ret.opt.some <=> ~common
           /\ ret.opt.some
                => /\ ret.opt.rect.ok
                   /\ \A x \in Probes, y \in Probes :
                         Inside(ret.opt.rect, x, y)
                           <=> (InImage(x, y) /\ Inside(shifted, x, y))
                   /\ Fits(ret.opt.rect, img.w, img.h)
                   /\ ret.opt.rect.width > 0
                   /\ ret.opt.rect.height > 0

(***************************************************************************)
(* Properties of writes through a MutableView (checked under WriteSpec).   *)
(***************************************************************************)
(* C23: after the MutableView of sub_image_mut(r) has written pixels and   *)
(* has been released, owner.get_pixel(r.left + i, r.top + j) is the value  *)
(* written to pixel (i, j) of the view, and every pixel of the owner       *)
(* outside r is unchanged.                                                 *)
ViewWritesReachOwner ==
    pc = "released"
    => /\ \A ij \in DOMAIN ret.written :
             get_pixel(img, call.rect.left + ij[1], call.rect.top + ij[2])
               = ret.written[ij]
       /\ \A xy \in Coords(img.w, img.h) :
             ~Inside(call.rect, xy[1], xy[2])
             => get_pixel(img, xy[1], xy[2])
                  = get_pixel(IndexImage(img.w, img.h, 1), xy[1], xy[2])

ViewWriteWitness ==
    /\ pc = "released"
    /\ call.rect.left > 0
    /\ call.rect.top > 0
    /\ Cardinality(DOMAIN ret.written) >= 2
    /\ call.rect.width * call.rect.height < img.w * img.h

(***************************************************************************)
(* Further properties of the padding functions (checked under PadSpec).    *)
(***************************************************************************)
(* p is im padded by sz with the pixel val: it has sz[1] more columns on   *)
(* the left and on the right and sz[2] more rows above and below, every    *)
(* pixel of this margin is val and every other pixel (x, y) is pixel       *)
(* (x - sz[1], y - sz[2]) of im.                                           *)
IsConstantPad(p, im, sz, val) ==
    /\ p.ok
    /\ p.w = im.w + 2 * sz[1]
    /\ p.h = im.h + 2 * sz[2]
    /\ \A xy \in Coords(p.w, p.h) :
          get_pixel(p, xy[1], xy[2])
            = IF \/ xy[1] < sz[1]
                 \/ xy[2] < sz[2]
                 \/ xy[1] >= im.w + sz[1]
                 \/ xy[2] >= im.h + sz[2]
              THEN val
              ELSE get_pixel(im, xy[1] - sz[1], xy[2] - sz[2])

(* C24: pad_constant(img, r, val), and pad_zeros, which is pad_constant    *)
(* with val = Pixel::zero(), returns an image in which every margin pixel  *)
(* (x < r, y < r, x >= w + r or y >= h + r) equals val and every other     *)
(* pixel (x, y) equals source pixel (x - r, y - r); r is the size on each  *)
(* axis, (r, r) when both are the same.                                    *)
ConstantPadFillsMargin ==
    (pc = "padded" /\ padding.kind = "Constant")
    => /\ IsConstantPad(padded, img, size, padding.val)
       /\ IsConstantPad(pad_zeros(img, size), img, size,
                        [c \in 1..Len(padding.val) |-> 0])

ConstantPadWitness ==
    /\ pc = "padded"
    /\ padding.kind = "Constant"
    /\ padding.val[1] # 0
    /\ SquareRadius
    /\ Radius = 2
    /\ img.w = 3
    /\ img.h = 2
    /\ get_pixel(padded, 1, 3) = padding.val
    /\ get_pixel(padded, 4, 3) = get_pixel(img, 2, 1)

(***************************************************************************)
(* Properties of Pixel (checked under PixelSpec).                          *)
(***************************************************************************)
(* C25: after pixel.clamp(low, high) with low <= high every channel c of   *)
(* the pixel satisfies low <= c <= high: a channel below low has become    *)
(* low, a channel above high has become high and a channel in the range is *)
(* unchanged.                                                              *)
ClampBoundsEveryChannel ==
    (Returned("clamp") /\ call.low <= call.high)
    => /\ ret.res = "Ok"
       /\ Len(ret.pixel) = Len(call.p)
       /\ \A c \in 1..Len(call.p) :
             /\ call.low <= ret.pixel[c]
             /\ ret.pixel[c] <= call.high
             /\ call.p[c] < call.low => ret.pixel[c] = call.low
             /\ call.p[c] > call.high => ret.pixel[c] = call.high
             /\ (call.low <= call.p[c] /\ call.p[c] <= call.high)
                  => ret.pixel[c] = call.p[c]

(* C26: Pixel::from_slice(s) and Pixel::set_to_slice(s) panic when s.len() *)
(* is less than the number of channels of the pixel type; they never       *)
(* produce or leave a pixel only partly taken from the slice.              *)
ShortSlicePanics ==
    ((Returned("from_slice") \/ Returned("set_to_slice")) /\ Len(call.s) < call.n)
    => ret.res = "panic"

(***************************************************************************)
(* Properties of RectNeighborhood (checked under NeighborhoodSpec).        *)
(***************************************************************************)
(* C27: RectNeighborhood::new(size, origin) returns Some if and only if    *)
(* size.0 > 0, size.1 > 0 and the origin lies inside the neighborhood      *)
(* (origin.0 < size.0 and origin.1 < size.1); for every other input,       *)
(* origin.0 = size.0 included, it returns None.                            *)
NeighborhoodOriginIsInside ==
    Returned("rect_neighborhood_new")
    => (ret.opt.some
          <=> /\ call.size[1] > 0
              /\ call.size[2] > 0
              /\ call.origin[1] < call.size[1]
              /\ call.origin[2] < call.size[2])

(***************************************************************************)
(* Properties of draw_cross (checked under DrawSpec).                      *)
(***************************************************************************)
(* C30: draw_cross(img, (cx, cy), size, color) on a w x h image with       *)
(* cx < w and cy < h never aborts and sets to color exactly the pixels     *)
(* (x, cy) with max(0, cx - size) <= x <= min(w - 1, cx + size) and        *)
(* (cx, y) with max(0, cy - size) <= y <= min(h - 1, cy + size); every     *)
(* other pixel is unchanged, also when w # h; when (cx, cy) is outside the *)
(* image no pixel changes.                                                 *)
CrossIsClippedToImage ==
    Returned("draw_cross")
    => LET cx == call.coords[1]
           cy == call.coords[2]
           OnCross(x, y) ==
               \/ (y = cy /\ cx - call.size <= x /\ x <= cx + call.size)
               \/ (x = cx /\ cy - call.size <= y /\ y <= cy + call.size)
       IN  IF cx < img.w /\ cy < img.h
           THEN /\ ret.res = "Ok"
                /\ <<ret.self.w, ret.self.h>> = <<img.w, img.h>>
                /\ \A xy \in Coords(img.w, img.h) :
                      get_pixel(ret.self, xy[1], xy[2])
                        = IF OnCross(xy[1], xy[2]) THEN call.color
                          ELSE get_pixel(img, xy[1], xy[2])
           ELSE ret.self = img

(* The source coordinate that the padding mode puts at the padded          *)
(* coordinate t + r of an axis of n source pixels.                         *)
SrcCoord(kind, t, n) ==
    CASE kind = "Replicate" -> clamp(t, 0, n - 1)
      [] kind = "Wrap" -> (t + n) % n
      [] kind = "Mirror" -> Reflect(t, n)

(* The padded image has size[1] more columns on each side and size[2] more *)
(* rows, and every pixel of it is the source pixel the mode names.         *)
PaddedFollowsMode ==
    /\ padded.ok
    /\ padded.w = img.w + 2 * size[1]
    /\ padded.h = img.h + 2 * size[2]
    /\ \A xy \in Coords(padded.w, padded.h) :
          get_pixel(padded, xy[1], xy[2])
            = get_pixel(img, SrcCoord(padding.kind, xy[1] - size[1], img.w),
                             SrcCoord(padding.kind, xy[2] - size[2], img.h))

(* C28: with a padding size (sx, sy), sx # sy, pad_replicate and           *)
(* pad_mirror complete and return an image of dimensions                   *)
(* (w + 2*sx, h + 2*sy) in which every margin pixel follows the mode's     *)
(* rule (replicate: the nearest source pixel; mirror: the reflection of    *)
(* the sx boundary columns / sy boundary rows); sx and sy are never        *)
(* interchanged.  Stated for 1 <= sx, 1 <= sy and, for pad_mirror,         *)
(* sx <= w and sy <= h.                                                    *)
UnequalSizesAreKeptApart ==
    (/\ pc = "padded"
     /\ padding.kind \in {"Replicate", "Mirror"}
     /\ size[1] # size[2]
     /\ size[1] >= 1
     /\ size[2] >= 1
     /\ padding.kind = "Mirror" => (size[1] <= img.w /\ size[2] <= img.h))
    => PaddedFollowsMode

(* C29: on a w x h image (w, h > 0), pad_zeros and pad_constant complete   *)
(* for every radius r >= 0 and pad_replicate for every r >= 1, also when   *)
(* r > w or r > h; pad_replicate, pad_wrap and pad_mirror abort for        *)
(* r = 0, and pad_wrap and pad_mirror abort whenever r > w or r > h; none  *)
(* of them returns an image of the wrong size or with an unpatched margin  *)
(* instead of aborting.                                                    *)
PadRadiusDomain ==
    (pc = "padded" /\ SquareRadius)
    => /\ padding.kind = "Constant"
            => /\ IsConstantPad(padded, img, size, padding.val)
               /\ pad_zeros(img, size).ok
       /\ padding.kind = "Replicate" => (padded.ok <=> Radius >= 1)
       /\ padding.kind \in {"Wrap", "Mirror"}
            => ((Radius = 0 \/ Radius > img.w \/ Radius > img.h) => ~padded.ok)
       /\ (Extending /\ padded.ok) => PaddedFollowsMode

RadiusDomainWitness ==
    /\ pc = "padded"
    /\ SquareRadius
    /\ build = "release"
    /\ padding.kind = "Wrap"
    /\ Radius = 2
    /\ img.w = 1
    /\ img.h = 3
    /\ ~padded.ok

====
